---- MODULE Spec2Model ----
(***************************************************************************)
(* Model of cli/src/commands/up.rs: the `up` command of ZecKit.            *)
(*                                                                         *)
(* One run of execute(backend, fresh) is a sequential program.  Its state  *)
(* is the program counter, the two parameters, the local `services`, the   *)
(* value returned, and a trace of everything the run does to the outside:  *)
(* calls into DockerCompose / HealthChecker and their returns, operations  *)
(* on the ProgressBar, and the lines written with println!.                *)
(*                                                                         *)
(* Text is modelled as a sequence of string pieces (the format string's    *)
(* literal parts and its arguments); terminal colouring is left out and    *)
(* the box-drawing rule and the emoji are written in ASCII.                *)
(***************************************************************************)
EXTENDS Integers, Sequences, FiniteSets

VARIABLES backend, fresh, pc, services, trace, result

vars == <<backend, fresh, pc, services, trace, result>>

----------------------------------------------------------------------------
(* Bounds *)

\* number of distinct error values a collaborator may return
NumErrors == 2
\* number of backend strings, taken from the front of BackendUniverse
NumBackends == 6

BackendUniverse ==
    <<"lwd", "zaino", "none", "foo", "", "LWD", "None", "lightwalletd">>

Backends == {BackendUniverse[i] : i \in 1..NumBackends}

\* a collaborator result: 0 is Ok(()), n > 0 is Err(n)
Ok == 0
Errors == 1..NumErrors
Outcomes == {Ok} \cup Errors

----------------------------------------------------------------------------
(* Trace events *)

Ev(kind, op, arg, res) == [kind |-> kind, op |-> op, arg |-> arg, res |-> res]

Call(op, arg)   == Ev("call", op, arg, Ok)
Ret(op, res)    == Ev("ret", op, <<>>, res)
Pb(op, arg)     == Ev("pb", op, arg, Ok)
Println(fn, line) == Ev("print", fn, line, Ok)

Idx(kind, op) == {i \in DOMAIN trace : trace[i].kind = kind /\ trace[i].op = op}

RECURSIVE Join(_, _)
\* services.join(", ")
Join(s, sep) ==
    IF Len(s) = 0 THEN <<>>
    ELSE IF Len(s) = 1 THEN <<s[1]>>
    ELSE <<s[1], sep>> \o Join(Tail(s), sep)

----------------------------------------------------------------------------
(* Pure parts of execute *)

SelectServices_Reordered(b) ==
    IF b = "lwd" THEN <<"zebra", "lightwalletd", "faucet">>
    ELSE IF b = "zaino" THEN <<"zebra", "faucet", "zaino">>
    ELSE <<"zebra", "faucet">>

\* match backend.as_str() { "lwd" => .., "zaino" => .., _ => .. }
SelectServices(b) ==
    IF b = "lwd" THEN <<"zebra", "faucet", "lightwalletd">>
    ELSE IF b = "zaino" THEN <<"zebra", "faucet", "zaino">>
    ELSE <<"zebra", "faucet">>

BackendGate_Always(b) == TRUE

\* if backend != "none"
BackendGate(b) == b # "none"

FreshGate_Never(f) == FALSE

FreshGate_Always(f) == TRUE

\* if fresh
FreshGate(f) == f

Rule == <<"--------------------------------------">>

BannerLines ==
    << Rule, <<"  ZecKit - Starting Devnet">>, Rule, <<>> >>

CleaningLine == <<"Cleaning up old data...">>

\* println!("{} Starting services: {}", rocket, services.join(", "))
StartingLine(s) == <<"rocket", " Starting services: ">> \o Join(s, ", ")

\* println!("  {} {}", label, address)
EndpointLine(label, address) == <<"  ", label, " ", address>>

BackendLines_AllExperimental(b) ==
    IF b = "lwd"
    THEN << EndpointLine("LightwalletD:", "http://127.0.0.1:9067 (experimental)") >>
    ELSE IF b = "zaino"
    THEN << EndpointLine("Zaino:", "http://127.0.0.1:9067 (experimental)") >>
    ELSE << >>

\* if backend == "lwd" { .. } else if backend == "zaino" { .. }
BackendLines(b) ==
    IF b = "lwd"
    THEN << EndpointLine("LightwalletD:", "http://127.0.0.1:9067") >>
    ELSE IF b = "zaino"
    THEN << EndpointLine("Zaino:", "http://127.0.0.1:9067 (experimental)") >>
    ELSE << >>

\* the lines print_connection_info(backend) writes, in order
ConnectionInfoLines(b) ==
    << <<>>, Rule, <<"  Services Ready">>, Rule, <<>>,
       EndpointLine("Zebra RPC:", "http://127.0.0.1:8232"),
       EndpointLine("Faucet API:", "http://127.0.0.1:8080") >>
    \o BackendLines(b)
    \o << <<>>, <<"Next steps:">>,
          <<"  * Test faucet: curl http://127.0.0.1:8080/stats">>,
          <<"  * Run tests: zecdev test">>,
          <<"  * Check status: zecdev status">>,
          <<>> >>

PrintlnAll(fn, lines) == [i \in DOMAIN lines |-> Println(fn, lines[i])]

----------------------------------------------------------------------------
(* The `?` operator and function return *)

PbExists == Idx("pb", "new_spinner") # {}

\* leaving execute drops the locals; the ProgressBar, if created, is dropped
DropLocals == IF PbExists THEN << Pb("drop", <<>>) >> ELSE << >>

\* `call();` without the `?`: whatever `op` returns, execute continues
Unchecked(op, r, next) ==
    /\ trace' = Append(trace, Ret(op, r))
    /\ pc' = next
    /\ UNCHANGED result

\* `call().map_err(..)?`: the error is replaced before it is returned
Try_MapsError(op, r, next) ==
    IF r = Ok
    THEN /\ trace' = Append(trace, Ret(op, r))
         /\ pc' = next
         /\ UNCHANGED result
    ELSE /\ trace' = Append(trace, Ret(op, r)) \o DropLocals
         /\ pc' = "done"
         /\ result' = [tag |-> "Err", err |-> 1]

\* the error is also written to the output before it is returned
Try_ReportsError(op, r, next) ==
    IF r = Ok
    THEN /\ trace' = Append(trace, Ret(op, r))
         /\ pc' = next
         /\ UNCHANGED result
    ELSE /\ trace' = Append(trace, Ret(op, r))
                        \o << Println("execute", <<"Error: ", op>>) >>
                        \o DropLocals
         /\ pc' = "done"
         /\ result' = [tag |-> "Err", err |-> r]

\* the error is recorded but execute carries on with the next phase
Try_Recovers(op, r, next) ==
    /\ trace' = Append(trace, Ret(op, r))
    /\ pc' = next
    /\ result' = IF r = Ok THEN result ELSE [tag |-> "Err", err |-> r]

\* `call()?` : the call `op` returns `r`; Ok continues at `next`, Err(e)
\* returns Err(e) from execute
Try(op, r, next) ==
    IF r = Ok
    THEN /\ trace' = Append(trace, Ret(op, r))
         /\ pc' = next
         /\ UNCHANGED result
    ELSE /\ trace' = Append(trace, Ret(op, r)) \o DropLocals
         /\ pc' = "done"
         /\ result' = [tag |-> "Err", err |-> r]

----------------------------------------------------------------------------
Init ==
    /\ backend \in Backends
    /\ fresh \in BOOLEAN
    /\ pc = "banner"
    /\ services = <<>>
    /\ trace = <<>>
    /\ result = [tag |-> "Running", err |-> Ok]

\* lines 8-11
Banner ==
    /\ pc = "banner"
    /\ trace' = trace \o PrintlnAll("execute", BannerLines)
    /\ pc' = "compose_new"
    /\ UNCHANGED <<backend, fresh, services, result>>

\* line 13: DockerCompose::new() is entered
ComposeNew ==
    /\ pc = "compose_new"
    /\ trace' = Append(trace, Call("DockerCompose::new", <<>>))
    /\ pc' = "compose_new_ret"
    /\ UNCHANGED <<backend, fresh, services, result>>

\* line 13: DockerCompose::new()? returns
ComposeNewReturn ==
    /\ pc = "compose_new_ret"
    /\ \E r \in Outcomes : Try("DockerCompose::new", r, "fresh")
    /\ UNCHANGED <<backend, fresh, services>>

\* lines 16-18: fresh start requested, compose.down(true) is entered
ComposeDown ==
    /\ pc = "fresh"
    /\ FreshGate(fresh)
    /\ trace' = trace \o << Println("execute", CleaningLine),
                            Call("down", <<"true">>) >>
    /\ pc' = "down_ret"
    /\ UNCHANGED <<backend, fresh, services, result>>

\* line 16: fresh is false, the block is skipped
SkipFresh ==
    /\ pc = "fresh"
    /\ ~FreshGate(fresh)
    /\ pc' = "select"
    /\ UNCHANGED <<backend, fresh, services, trace, result>>


ComposeDownReturn_Unchecked ==
    /\ pc = "down_ret"
    /\ \E r \in Outcomes : Unchecked("down", r, "select")
    /\ UNCHANGED <<backend, fresh, services>>

\* line 18: compose.down(true)? returns
ComposeDownReturn ==
    /\ pc = "down_ret"
    /\ \E r \in Outcomes : Try("down", r, "select")
    /\ UNCHANGED <<backend, fresh, services>>

ComposeUp_Twice ==
    /\ pc = "select"
    /\ services' = SelectServices(backend)
    /\ trace' = trace \o << Println("execute", StartingLine(services')),
                            Call("up", services'),
                            Ret("up", Ok),
                            Call("up", services') >>
    /\ pc' = "up_ret"
    /\ UNCHANGED <<backend, fresh, result>>

\* lines 22-29: services are chosen, announced, compose.up(&services) entered
ComposeUp ==
    /\ pc = "select"
    /\ services' = SelectServices(backend)
    /\ trace' = trace \o << Println("execute", StartingLine(services')),
                            Call("up", services') >>
    /\ pc' = "up_ret"
    /\ UNCHANGED <<backend, fresh, result>>


ComposeUpReturn_Unchecked ==
    /\ pc = "up_ret"
    /\ \E r \in Outcomes : Unchecked("up", r, "spinner")
    /\ UNCHANGED <<backend, fresh, services>>

\* line 29: compose.up(&services)? returns
ComposeUpReturn ==
    /\ pc = "up_ret"
    /\ \E r \in Outcomes : Try("up", r, "spinner")
    /\ UNCHANGED <<backend, fresh, services>>

\* lines 32-41: the spinner is created, wait_for_zebra(&pb) is entered
WaitForZebra ==
    /\ pc = "spinner"
    /\ trace' = trace \o << Pb("new_spinner", <<>>),
                            Pb("set_style", <<"{spinner:.green} {msg}">>),
                            Pb("set_message", <<"Waiting for Zebra...">>),
                            Call("HealthChecker::new", <<>>),
                            Ret("HealthChecker::new", Ok),
                            Call("wait_for_zebra", <<>>) >>
    /\ pc' = "zebra_ret"
    /\ UNCHANGED <<backend, fresh, services, result>>


WaitForZebraReturn_Unchecked ==
    /\ pc = "zebra_ret"
    /\ \E r \in Outcomes : Unchecked("wait_for_zebra", r, "faucet")
    /\ UNCHANGED <<backend, fresh, services>>

\* line 41: wait_for_zebra(&pb).await? returns
WaitForZebraReturn ==
    /\ pc = "zebra_ret"
    /\ \E r \in Outcomes : Try("wait_for_zebra", r, "faucet")
    /\ UNCHANGED <<backend, fresh, services>>

\* lines 43-44: wait_for_faucet(&pb) is entered
WaitForFaucet ==
    /\ pc = "faucet"
    /\ trace' = trace \o << Pb("set_message", <<"Waiting for Faucet...">>),
                            Call("wait_for_faucet", <<>>) >>
    /\ pc' = "faucet_ret"
    /\ UNCHANGED <<backend, fresh, services, result>>


WaitForFaucetReturn_Unchecked ==
    /\ pc = "faucet_ret"
    /\ \E r \in Outcomes : Unchecked("wait_for_faucet", r, "backend")
    /\ UNCHANGED <<backend, fresh, services>>

\* a failed faucet wait is tried a second time
WaitForFaucetReturn_RetryOnce ==
    /\ pc = "faucet_ret"
    /\ \E r \in Outcomes :
          IF r # Ok /\ Cardinality(Idx("call", "wait_for_faucet")) < 2
          THEN /\ trace' = Append(trace, Ret("wait_for_faucet", r))
               /\ pc' = "faucet"
               /\ UNCHANGED result
          ELSE Try("wait_for_faucet", r, "backend")
    /\ UNCHANGED <<backend, fresh, services>>

\* line 44: wait_for_faucet(&pb).await? returns
WaitForFaucetReturn ==
    /\ pc = "faucet_ret"
    /\ \E r \in Outcomes : Try("wait_for_faucet", r, "backend")
    /\ UNCHANGED <<backend, fresh, services>>

\* lines 46-48: backend != "none", wait_for_backend(&backend, &pb) is entered
WaitForBackend ==
    /\ pc = "backend"
    /\ BackendGate(backend)
    /\ trace' = trace \o
          << Pb("set_message", <<"Waiting for ", backend, "...">>),
             Call("wait_for_backend", <<backend>>) >>
    /\ pc' = "backend_ret"
    /\ UNCHANGED <<backend, fresh, services, result>>

\* line 46: backend == "none", the block is skipped
SkipBackend ==
    /\ pc = "backend"
    /\ ~BackendGate(backend)
    /\ pc' = "finish"
    /\ UNCHANGED <<backend, fresh, services, trace, result>>


WaitForBackendReturn_Unchecked ==
    /\ pc = "backend_ret"
    /\ \E r \in Outcomes : Unchecked("wait_for_backend", r, "finish")
    /\ UNCHANGED <<backend, fresh, services>>

\* line 48: wait_for_backend(&backend, &pb).await? returns
WaitForBackendReturn ==
    /\ pc = "backend_ret"
    /\ \E r \in Outcomes : Try("wait_for_backend", r, "finish")
    /\ UNCHANGED <<backend, fresh, services>>

SuccessMessage == <<"ok All services ready!">>

Finish_Twice ==
    /\ pc = "finish"
    /\ trace' = trace \o << Pb("finish_with_message", SuccessMessage),
                            Pb("finish_with_message", SuccessMessage) >>
    /\ pc' = "report"
    /\ UNCHANGED <<backend, fresh, services, result>>

\* lines 51 and 54 exchanged
Finish_AfterReport ==
    /\ pc = "finish"
    /\ trace' = trace
          \o PrintlnAll("print_connection_info", ConnectionInfoLines(backend))
          \o << Pb("finish_with_message", SuccessMessage) >>
    /\ pc' = "return"
    /\ UNCHANGED <<backend, fresh, services, result>>

\* line 51
Finish ==
    /\ pc = "finish"
    /\ trace' = Append(trace, Pb("finish_with_message", SuccessMessage))
    /\ pc' = "report"
    /\ UNCHANGED <<backend, fresh, services, result>>

\* lines 54, 59-80
print_connection_info ==
    /\ pc = "report"
    /\ trace' = trace \o
          PrintlnAll("print_connection_info", ConnectionInfoLines(backend))
    /\ pc' = "return"
    /\ UNCHANGED <<backend, fresh, services, result>>

\* line 56
ReturnOk ==
    /\ pc = "return"
    /\ trace' = trace \o DropLocals
    /\ result' = [tag |-> "Ok", err |-> Ok]
    /\ pc' = "done"
    /\ UNCHANGED <<backend, fresh, services>>

Next ==
    \/ Banner
    \/ ComposeNew
    \/ ComposeNewReturn
    \/ ComposeDown
    \/ SkipFresh
    \/ ComposeDownReturn
    \/ ComposeUp
    \/ ComposeUpReturn
    \/ WaitForZebra
    \/ WaitForZebraReturn
    \/ WaitForFaucet
    \/ WaitForFaucetReturn
    \/ WaitForBackend
    \/ SkipBackend
    \/ WaitForBackendReturn
    \/ Finish
    \/ print_connection_info
    \/ ReturnOk

Spec == Init /\ [][Next]_vars

\* every call that is entered returns, and execute itself is never suspended
\* anywhere but in a call (each `.await` is on a collaborator)
FairSpec == Spec /\ WF_vars(Next)

----------------------------------------------------------------------------
(* Reading the trace *)

CallIdx(op) == Idx("call", op)
RetIdx(op)  == Idx("ret", op)

\* `op` has returned Ok(()) at some position before j
OkBefore(op, j) == \E i \in RetIdx(op) : i < j /\ trace[i].res = Ok

Waits == {"wait_for_zebra", "wait_for_faucet", "wait_for_backend"}

WaitCallIdx == UNION {CallIdx(w) : w \in Waits}

\* positions of the lines written by print_connection_info
ReportIdx == Idx("print", "print_connection_info")

IsReportEv(e) == e.kind = "print" /\ e.op = "print_connection_info"

\* a line written with the format "  {} {}": a label and an address
IsEndpointEv(e) == Len(e.arg) = 4

\* the endpoint lines of the report, in the order written
Endpoints == SelectSeq(SelectSeq(trace, IsReportEv), IsEndpointEv)

\* endpoint lines other than the node's and the faucet's
BackendEndpoints ==
    {i \in DOMAIN Endpoints : Endpoints[i].arg[2] \notin {"Zebra RPC:", "Faucet API:"}}

\* positions of the report's heading; one per report written
ReportHeadIdx == {i \in ReportIdx : trace[i].arg = <<"  Services Ready">>}

Recognized == {"lwd", "zaino"}

----------------------------------------------------------------------------
(* Claims *)

\* C1: readiness waits are invoked in the order node -> faucet -> backend:
\* the faucet wait is entered only after the node wait returned Ok, and the
\* backend wait only after the faucet wait returned Ok.
C1_WaitOrder ==
    /\ \A j \in CallIdx("wait_for_faucet") : OkBefore("wait_for_zebra", j)
    /\ \A j \in CallIdx("wait_for_backend") : OkBefore("wait_for_faucet", j)
    /\ \A i \in CallIdx("wait_for_zebra") :
          \A j \in CallIdx("wait_for_faucet") \cup CallIdx("wait_for_backend") :
             i < j

C1_Witness ==
    /\ CallIdx("wait_for_backend") # {}
    /\ RetIdx("wait_for_backend") = {}

\* C2: once a readiness wait has returned an error the run has ended with
\* an error: no readiness wait is entered afterwards and no line of the
\* connection report is written.
C2_WaitErrorAborts ==
    \A w \in Waits : \A i \in RetIdx(w) :
        trace[i].res # Ok =>
            /\ pc = "done"
            /\ result.tag = "Err"
            /\ \A j \in WaitCallIdx : j < i
            /\ ReportIdx = {}

C2_Witness ==
    \E i \in RetIdx("wait_for_faucet") : trace[i].res # Ok

\* C3: with fresh = true a down(true) request precedes every up request;
\* with fresh = false no down request is ever made.
C3_ResetBeforeStart ==
    /\ fresh =>
          \A j \in CallIdx("up") :
             \E i \in CallIdx("down") : i < j /\ trace[i].arg = <<"true">>
    /\ ~fresh => CallIdx("down") = {}

C3_Witness ==
    /\ fresh
    /\ CallIdx("up") # {}

\* C4: if down(true) returns an error the run has ended with an error, and
\* no up request and no readiness wait is ever made.
C4_ResetErrorAborts ==
    \A i \in RetIdx("down") :
        trace[i].res # Ok =>
            /\ pc = "done"
            /\ result.tag = "Err"
            /\ CallIdx("up") = {}
            /\ WaitCallIdx = {}

C4_Witness ==
    \E i \in RetIdx("down") : trace[i].res # Ok

\* C5: if up(services) returns an error the run has ended with an error,
\* and no readiness wait is ever made.
C5_StartErrorAborts ==
    \A i \in RetIdx("up") :
        trace[i].res # Ok =>
            /\ pc = "done"
            /\ result.tag = "Err"
            /\ WaitCallIdx = {}

C5_Witness ==
    \E i \in RetIdx("up") : trace[i].res # Ok

\* C6: for every backend string other than "lwd" and "zaino" the run starts
\* exactly [zebra, faucet] and never enters the backend readiness wait.
C6_UnknownBackendSkipsWait ==
    backend \notin Recognized =>
        /\ \A j \in CallIdx("up") : trace[j].arg = <<"zebra", "faucet">>
        /\ CallIdx("wait_for_backend") = {}

\* C7: with backend "none" the backend readiness wait is never entered and
\* the report of a successful run has no backend endpoint line.
C7_NoneSkipsBackend ==
    backend = "none" =>
        /\ CallIdx("wait_for_backend") = {}
        /\ BackendEndpoints = {}
        /\ result.tag = "Ok" => Len(Endpoints) = 2

C7_Witness ==
    /\ backend = "none"
    /\ result.tag = "Ok"

\* C8: the services started are a function of the backend string alone:
\* "lwd" gives [zebra, faucet, lightwalletd], "zaino" gives
\* [zebra, faucet, zaino], anything else gives [zebra, faucet]; zebra and
\* faucet are always the first two, in that order.
C8_Topology ==
    \A j \in CallIdx("up") :
        LET s == trace[j].arg IN
        /\ s = services
        /\ backend = "lwd" => s = <<"zebra", "faucet", "lightwalletd">>
        /\ backend = "zaino" => s = <<"zebra", "faucet", "zaino">>
        /\ backend \notin Recognized => s = <<"zebra", "faucet">>
        /\ Len(s) >= 2 /\ s[1] = "zebra" /\ s[2] = "faucet"

C8_Witness ==
    /\ CallIdx("up") # {}
    /\ Len(services) = 3

\* C9: a run that returned Ok has written exactly one connection report, a
\* run that returned an error has written no line of it, and a report is
\* written only after the node wait, the faucet wait and, when entered, the
\* backend wait have returned Ok.
C9_ReportOnlyOnSuccess ==
    /\ result.tag = "Ok" => Cardinality(ReportHeadIdx) = 1
    /\ result.tag = "Err" => ReportIdx = {}
    /\ \A j \in ReportIdx :
          /\ OkBefore("wait_for_zebra", j)
          /\ OkBefore("wait_for_faucet", j)
          /\ CallIdx("wait_for_backend") # {} => OkBefore("wait_for_backend", j)
          /\ \A w \in Waits : \A i \in RetIdx(w) : trace[i].res = Ok

C9_Witness ==
    /\ result.tag = "Ok"
    /\ CallIdx("wait_for_backend") # {}

\* C10: the report of a successful run lists the node RPC endpoint, then
\* the faucet API endpoint, then a backend endpoint exactly when the backend
\* is "lwd" or "zaino"; the backend line is marked experimental exactly
\* when the backend is "zaino".
C10_ReportContent ==
    result.tag = "Ok" =>
        /\ Len(Endpoints) \in {2, 3}
        /\ Endpoints[1].arg = <<"  ", "Zebra RPC:", " ", "http://127.0.0.1:8232">>
        /\ Endpoints[2].arg = <<"  ", "Faucet API:", " ", "http://127.0.0.1:8080">>
        /\ BackendEndpoints = (IF backend \in Recognized THEN {3} ELSE {})
        /\ Len(Endpoints) = 3 <=> backend \in Recognized
        /\ (\E i \in BackendEndpoints :
               Endpoints[i].arg[4] = "http://127.0.0.1:9067 (experimental)")
              <=> backend = "zaino"
        /\ \A i \in BackendEndpoints :
               Endpoints[i].arg[4] \in {"http://127.0.0.1:9067",
                                        "http://127.0.0.1:9067 (experimental)"}

C10_Witness ==
    /\ result.tag = "Ok"
    /\ backend = "zaino"

----------------------------------------------------------------------------
(* More trace reading *)

AllCallIdx == {i \in DOMAIN trace : trace[i].kind = "call"}
AllRetIdx  == {i \in DOMAIN trace : trace[i].kind = "ret"}

\* positions at which a collaborator returned an error
ErrRetIdx == {i \in AllRetIdx : trace[i].res # Ok}

Min(S) == CHOOSE x \in S : \A y \in S : x <= y

\* the operations of the run on the container runtime, the health prober,
\* the progress bar's finish and the report (one entry per report written)
IsOperation(e) ==
    \/ e.kind = "call" /\ e.op \in {"down", "up"} \cup Waits
    \/ e.kind = "pb" /\ e.op = "finish_with_message"
    \/ IsReportEv(e) /\ e.arg = <<"  Services Ready">>

Operations == SelectSeq(trace, IsOperation)

OperationNames == [i \in DOMAIN Operations |-> Operations[i].op]

\* the order of operations execute is written in
ExpectedOperations ==
    (IF fresh THEN <<"down">> ELSE << >>)
    \o <<"up", "wait_for_zebra", "wait_for_faucet">>
    \o (IF backend # "none" THEN <<"wait_for_backend">> ELSE << >>)
    \o <<"finish_with_message", "print_connection_info">>

ExpectedTopology ==
    IF backend = "lwd" THEN <<"zebra", "faucet", "lightwalletd">>
    ELSE IF backend = "zaino" THEN <<"zebra", "faucet", "zaino">>
    ELSE <<"zebra", "faucet">>

FinishIdx == Idx("pb", "finish_with_message")

\* C11: a run that fails returns the first error any collaborator call
\* returned, unchanged; a run returns Ok only if every call it made
\* returned Ok.
C11_FirstErrorPropagated ==
    /\ result.tag = "Err" =>
          /\ ErrRetIdx # {}
          /\ result.err = trace[Min(ErrRetIdx)].res
    /\ ErrRetIdx # {} => result.tag = "Err" /\ Cardinality(ErrRetIdx) = 1
    /\ result.tag = "Ok" =>
          /\ ErrRetIdx = {}
          /\ Cardinality(AllCallIdx) = Cardinality(AllRetIdx)

C11_Witness ==
    /\ result.tag = "Err"
    /\ result.err = NumErrors
    /\ RetIdx("wait_for_zebra") # {}

PbUpdateIdx == Idx("pb", "set_message") \cup Idx("pb", "set_style")

IsPrintEv(e) == e.kind = "print"

\* everything written with println!, in order
PrintedLines ==
    LET p == SelectSeq(trace, IsPrintEv) IN [i \in DOMAIN p |-> p[i].arg]

\* C13 as stated: every finished run, failed or not, has finalized the
\* progress bar exactly once, with no status update after it.
C13_FinalizedOnEveryRun ==
    pc = "done" =>
        /\ Cardinality(FinishIdx) = 1
        /\ \A f \in FinishIdx : \A j \in PbUpdateIdx : j < f

\* C13 amended: the progress bar is finalized at most once; exactly once on
\* a run that returns Ok and never on a run that returns an error; no status
\* update follows the finalization.
C13_FinalizedOnSuccessOnly ==
    /\ Cardinality(FinishIdx) <= 1
    /\ result.tag = "Ok" => Cardinality(FinishIdx) = 1
    /\ result.tag = "Err" => FinishIdx = {}
    /\ \A f \in FinishIdx : \A j \in PbUpdateIdx : j < f

C13_Witness ==
    /\ result.tag = "Ok"
    /\ FinishIdx # {}
    /\ PbUpdateIdx # {}

\* C14: the progress bar is finished with the success message only after
\* the node wait, the faucet wait and, when entered, the backend wait have
\* returned Ok; the finish precedes every line of the report; a run that
\* returned an error has no finish.
C14_SuccessFinishGated ==
    /\ \A f \in FinishIdx :
          /\ trace[f].arg = <<"ok All services ready!">>
          /\ OkBefore("wait_for_zebra", f)
          /\ OkBefore("wait_for_faucet", f)
          /\ CallIdx("wait_for_backend") # {} => OkBefore("wait_for_backend", f)
          /\ ErrRetIdx = {}
          /\ \A j \in ReportIdx : f < j
    /\ ReportIdx # {} => FinishIdx # {}
    /\ result.tag = "Err" => FinishIdx = {}

C14_Witness ==
    /\ FinishIdx # {}
    /\ ReportIdx # {}
    /\ RetIdx("wait_for_backend") # {}

\* C15 as stated: a run that returned an error has written nothing.
C15_SilentOnFailure ==
    result.tag = "Err" => PrintedLines = << >>

\* C15 amended: a run that returned an error has written only what precedes
\* the failing call: the banner, the cleaning line if down was called and
\* the starting line if up was called; no line of the report and nothing
\* after the error.
C15_FailureOutput ==
    result.tag = "Err" =>
        /\ PrintedLines =
              BannerLines
              \o (IF CallIdx("down") # {} THEN << CleaningLine >> ELSE << >>)
              \o (IF CallIdx("up") # {}
                  THEN << <<"rocket", " Starting services: ">>
                          \o Join(ExpectedTopology, ", ") >>
                  ELSE << >>)
        /\ ReportIdx = {}
        /\ \A i \in ErrRetIdx : \A j \in DOMAIN trace :
              trace[j].kind = "print" => j < i

C15_Witness ==
    /\ result.tag = "Err"
    /\ CallIdx("down") # {}
    /\ CallIdx("up") # {}

\* the run got past DockerCompose::new and, if fresh, past down(true), and
\* has executed line 29
StartReached ==
    /\ OkBefore("DockerCompose::new", Len(trace) + 1)
    /\ fresh => OkBefore("down", Len(trace) + 1)
    /\ pc \notin {"fresh", "select"}

\* C16: a run that reaches the start issues exactly one up request, whose
\* argument is the services selected for the backend, in order; no run
\* issues more than one.
C16_SingleStart ==
    /\ Cardinality(CallIdx("up")) <= 1
    /\ StartReached => Cardinality(CallIdx("up")) = 1
    /\ CallIdx("up") # {} => StartReached
    /\ \A j \in CallIdx("up") :
          /\ trace[j].arg = ExpectedTopology
          /\ trace[j].arg = services

C16_Witness ==
    /\ StartReached
    /\ pc = "done"
    /\ backend = "lwd"

RuntimeAndProberOps == {"down", "up"} \cup Waits

\* C17: within a run each of down, up and the three waits is called at most
\* once, whether it returns Ok or an error.
C17_NoRetry ==
    \A op \in RuntimeAndProberOps :
        /\ Cardinality(CallIdx(op)) <= 1
        /\ Cardinality(RetIdx(op)) <= Cardinality(CallIdx(op))

C17_Witness ==
    /\ pc = "done"
    /\ \E i \in RetIdx("wait_for_faucet") : trace[i].res # Ok

\* the control positions of execute, in program order
PcOrder ==
    <<"banner", "compose_new", "compose_new_ret", "fresh", "down_ret",
      "select", "up_ret", "spinner", "zebra_ret", "faucet", "faucet_ret",
      "backend", "backend_ret", "finish", "report", "return", "done">>

Rank(p) == CHOOSE i \in DOMAIN PcOrder : PcOrder[i] = p

\* C18: if every call that is entered returns, the run ends, having
\* returned either Ok or an error; control only moves forward; and once a
\* collaborator has returned an error nothing more happens: no call, no
\* progress update, no output.
C18_TerminatesLinear ==
    /\ <>(pc = "done")
    /\ [](pc = "done" <=> result.tag \in {"Ok", "Err"})
    /\ [][Rank(pc') > Rank(pc)]_vars
    /\ [][result.tag = "Running"]_vars
    /\ [](\A i \in ErrRetIdx : \A j \in DOMAIN trace :
             j > i => trace[j].kind = "pb" /\ trace[j].op = "drop")

C18_Witness ==
    /\ pc = "done"
    /\ result.tag = "Err"
    /\ PbExists

\* C19: the backend wait is entered only in a run whose up request named a
\* third, backend service.
C19_BackendWaitOnlyIfStarted ==
    \A j \in CallIdx("wait_for_backend") :
        \E u \in CallIdx("up") : u < j /\ Len(trace[u].arg) = 3

\* C20: the report of a successful run has a backend endpoint line exactly
\* when the backend wait was entered and returned Ok in that run.
C20_ReportAgreesWithGate ==
    result.tag = "Ok" =>
        (BackendEndpoints # {} <=> OkBefore("wait_for_backend", Len(trace) + 1))

====
